---- MODULE Spec2Model ----
(***************************************************************************)
(* Model of the phdb pager (src/src/main.rs): the header codec             *)
(* (DbHeader::to_buf / DbHeader::from / DbHeader::alloc), the bootstrap    *)
(* (Pager::init) and the page primitives (Pager::read / Pager::write) over *)
(* a heap file held as a sequence of bytes.                                *)
(*                                                                         *)
(* Representation.  TLC integers are 32-bit signed, so a u32 is held as a  *)
(* record [hi, lo] of two 16-bit halves (value = hi * 65536 + lo); a u16   *)
(* and a byte are plain integers.  Arithmetic on u32 is done on the halves *)
(* and keeps the full 32-bit width.                                        *)
(*                                                                         *)
(* I/O.  The file is a regular file: read_at returns the bytes present     *)
(* from the offset on (fewer than asked for at end of file), write_at      *)
(* writes the whole buffer, zero-filling any gap.  I/O errors are not      *)
(* modelled.                                                               *)
(***************************************************************************)
EXTENDS Integers, Sequences, FiniteSets, TLC

VARIABLES
    file,               \* the bytes of the heap file on disk
    page_size,          \* Pager.page_size (u16)
    default_page_size,  \* the page_size the Pager was constructed with
    overflow_checks,    \* build profile: TRUE = u32 overflow panics, FALSE = wraps
    header,             \* the DbHeader that Pager::init decoded (local `header`)
    pc,                 \* "new" | "ready" | "panicked"
    nops,               \* page operations performed so far
    last,               \* the last call: its arguments, result and the file before it
    h_in,               \* codec: the header value to encode
    h_buf,              \* codec: its encoding
    h_out,              \* codec: the decoding of h_buf
    cpc                 \* codec: "start" | "encoded" | "decoded"

vars == <<file, page_size, default_page_size, overflow_checks, header, pc, nops,
          last, h_in, h_buf, h_out, cpc>>
pagerVars == <<file, page_size, default_page_size, overflow_checks, header, pc,
               nops, last>>
codecVars == <<h_in, h_buf, h_out, cpc>>

----------------------------------------------------------------------------
(* Bounds of the model *)

MaxOps == 2          \* page operations after init
MaxFileLen == 24     \* writes that would grow the file beyond this are left out

----------------------------------------------------------------------------
(* Integer representation *)

U32(h, l) == [hi |-> h, lo |-> l]

Zero32 == U32(0, 0)

IsZero32(x) == x.hi = 0 /\ x.lo = 0

Min(a, b) == IF a < b THEN a ELSE b

Max(a, b) == IF a > b THEN a ELSE b

Zeros(n) == [i \in 1..n |-> 0]

\* u32::to_le_bytes
u32_to_le_bytes(x) ==
    << x.lo % 256, x.lo \div 256, x.hi % 256, x.hi \div 256 >>

\* u16::to_le_bytes
u16_to_le_bytes(x) == << x % 256, x \div 256 >>

\* u32::from_le_bytes
u32_from_le_bytes(b) == U32(b[3] + 256 * b[4], b[1] + 256 * b[2])

\* u16::from_le_bytes
u16_from_le_bytes(b) == b[1] + 256 * b[2]

\* buf[offset .. offset + Len(src)].copy_from_slice(src), offset 0-based
copy_from_slice(buf, offset, src) ==
    [i \in 1..Len(buf) |->
        IF i > offset /\ i <= offset + Len(src) THEN src[i - offset] ELSE buf[i]]

\* buf[offset .. offset + n], offset 0-based
slice(buf, offset, n) == SubSeq(buf, offset + 1, offset + n)

----------------------------------------------------------------------------
(* Program constants *)

MAGIC_NUMBER == U32(20552, 17474)      \* 0x50484442

DEFAULT_PAGE_SIZE == 1024

\* mem::size_of::<DbHeader>(): u32 + u16 + u32 = 10 bytes, padded to the
\* struct's 4-byte alignment
HEADER_SIZE == 12

SIZE_U32 == 4

SIZE_U16 == 2

----------------------------------------------------------------------------
(* DbHeader *)

DbHeader(m, ps, pcount) == [magic |-> m, page_size |-> ps, page_count |-> pcount]

to_buf_count_at_8(h) ==
    LET buf0 == Zeros(HEADER_SIZE)
        buf1 == copy_from_slice(buf0, 0, u32_to_le_bytes(h.magic))
        buf2 == copy_from_slice(buf1, SIZE_U32, u16_to_le_bytes(h.page_size))
    IN  copy_from_slice(buf2, 8, u32_to_le_bytes(h.page_count))

\* DbHeader::to_buf
to_buf(h) ==
    LET buf0 == Zeros(HEADER_SIZE)
        off0 == 0
        buf1 == copy_from_slice(buf0, off0, u32_to_le_bytes(h.magic))
        off1 == off0 + SIZE_U32
        buf2 == copy_from_slice(buf1, off1, u16_to_le_bytes(h.page_size))
        off2 == off1 + SIZE_U16
    IN  copy_from_slice(buf2, off2, u32_to_le_bytes(h.page_count))

\* DbHeader::from
from(buf) ==
    LET off0 == 0
        magic == u32_from_le_bytes(slice(buf, off0, SIZE_U32))
        off1 == off0 + SIZE_U32
        psize == u16_from_le_bytes(slice(buf, off1, SIZE_U16))
        off2 == off1 + SIZE_U16
        pcount == u32_from_le_bytes(slice(buf, off2, SIZE_U32))
    IN  DbHeader(magic, psize, pcount)

alloc_one_page(ps) == DbHeader(MAGIC_NUMBER, ps, U32(0, 1))

\* DbHeader::alloc
alloc(ps) == DbHeader(MAGIC_NUMBER, ps, Zero32)

----------------------------------------------------------------------------
(* u32 arithmetic of Pager::read / Pager::write: page_no * self.page_size as u32 *)

\* low 16 bits and carry of page_no.lo * ps
mul_lo(page_no, ps) ==
    LET a == page_no.lo * (ps % 256)
        b == page_no.lo * (ps \div 256)
        t == a + (b % 256) * 256
    IN  [lo |-> t % 65536, carry |-> (t \div 65536) + (b \div 256)]

\* TRUE iff the mathematical product page_no * ps does not fit a u32
mul_overflows(page_no, ps) ==
    LET c == page_no.hi * (ps % 256)
        d == page_no.hi * (ps \div 256)
    IN  \/ d >= 256
        \/ mul_lo(page_no, ps).carry + c + d * 256 >= 65536

page_offset_plus_header(page_no, ps) ==
    LET c == page_no.hi * (ps % 256)
        d == page_no.hi * (ps \div 256)
        m == mul_lo(page_no, ps)
        l == m.lo + HEADER_SIZE
    IN  U32((m.carry + c + (d % 256) * 256 + (l \div 65536)) % 65536, l % 65536)

\* the product reduced modulo 2^32 (what a build without overflow checks computes)
page_offset(page_no, ps) ==
    LET c == page_no.hi * (ps % 256)
        d == page_no.hi * (ps \div 256)
        m == mul_lo(page_no, ps)
    IN  U32((m.carry + c + (d % 256) * 256) % 65536, m.lo)

----------------------------------------------------------------------------
(* The file: FileExt::read_at / FileExt::write_at on a regular file.       *)
(* Offsets are u64 in the code; they come from a u32 and are held as one.  *)
(* The file is shorter than 65536 bytes in this model, so an offset with   *)
(* hi > 0 lies beyond its end.                                             *)

\* read_at(buf, off): [n |-> bytes read, buf |-> the buffer afterwards]
read_at(f, buf, off) ==
    LET avail == IF off.hi > 0 THEN 0 ELSE Max(0, Len(f) - off.lo)
        n == Min(Len(buf), avail)
    IN  [n |-> n,
         buf |-> [i \in 1..Len(buf) |-> IF i <= n THEN f[off.lo + i] ELSE buf[i]]]

\* write_at(buf, off), off < 65536 given as an integer: the file afterwards
write_at(f, buf, off) ==
    IF Len(buf) = 0 THEN f
    ELSE [i \in 1..Max(Len(f), off + Len(buf)) |->
            IF i > off /\ i <= off + Len(buf) THEN buf[i - off]
            ELSE IF i <= Len(f) THEN f[i] ELSE 0]

----------------------------------------------------------------------------
(* Pager *)

\* Pager::read, when the multiplication does not panic
pager_read(f, ps, page_no, buf) == read_at(f, buf, page_offset(page_no, ps))

pager_write_after_header(f, ps, page_no, buf) ==
    write_at(f, buf, page_offset_plus_header(page_no, ps).lo)

\* Pager::write, when the multiplication does not panic
pager_write(f, ps, page_no, buf) == write_at(f, buf, page_offset(page_no, ps).lo)

init_result_keep_default(f, ps) ==
    LET r == pager_read(f, ps, Zero32, Zeros(HEADER_SIZE))
        h == from(r.buf)
    IN  IF h.magic = MAGIC_NUMBER
        THEN [file |-> f, page_size |-> ps, header |-> h, buf |-> r.buf, n |-> r.n]
        ELSE [file |-> pager_write(f, ps, Zero32, to_buf(alloc(ps))),
              page_size |-> ps, header |-> h, buf |-> r.buf, n |-> r.n]

\* Pager::init: the file, the pager's page_size and the decoded header afterwards
init_result(f, ps) ==
    LET r == pager_read(f, ps, Zero32, Zeros(HEADER_SIZE))
        h == from(r.buf)
    IN  IF h.magic = MAGIC_NUMBER
        THEN [file |-> f, page_size |-> h.page_size, header |-> h,
              buf |-> r.buf, n |-> r.n]
        ELSE [file |-> pager_write(f, ps, Zero32, to_buf(alloc(ps))),
              page_size |-> ps, header |-> h, buf |-> r.buf, n |-> r.n]

----------------------------------------------------------------------------
(* Inputs *)

MagicBytes == u32_to_le_bytes(MAGIC_NUMBER)

\* a file holding a header this program wrote, followed by data bytes
HeaderFile(ps, pcount, data) == to_buf(DbHeader(MAGIC_NUMBER, ps, pcount)) \o data

\* 16 bytes of another format
Foreign == << 83, 81, 76, 105, 116, 101, 32, 102, 111, 114, 109, 97, 116, 32, 51, 0 >>

Pat(seed, n) == [i \in 1..n |-> (seed + i) % 256]

InitialFiles ==
    { << >>,
      << 1, 2, 3 >>,
      MagicBytes,
      MagicBytes \o << 4 >>,
      SubSeq(HeaderFile(8, U32(0, 2), << >>), 1, 8),
      SubSeq(Foreign, 1, 11),
      SubSeq(Foreign, 1, 12),
      Foreign,
      HeaderFile(0, Zero32, << >>),
      HeaderFile(4, Zero32, << >>),
      HeaderFile(4, U32(0, 2), Pat(200, 8)),
      HeaderFile(12, U32(0, 1), Pat(100, 12)),
      HeaderFile(DEFAULT_PAGE_SIZE, Zero32, << >>) }

DefaultPageSizes == { DEFAULT_PAGE_SIZE, 8 }

\* 0, 1, 2, 2^22 and 2^30 + 1
PageNumbers == { Zero32, U32(0, 1), U32(0, 2), U32(64, 0), U32(16384, 1) }

BufLens == { 0, 4, 8, 12 }

Buffers == { Pat(16, n) : n \in BufLens } \cup { Pat(160, 4) }

NoCall == [op |-> "none", page_no |-> Zero32, buf |-> << >>, n |-> 0,
           offset |-> Zero32, before |-> << >>]

ZeroHeader == DbHeader(Zero32, 0, Zero32)

----------------------------------------------------------------------------
(* The pager as a state machine *)

Init ==
    /\ file \in InitialFiles
    /\ default_page_size \in DefaultPageSizes
    /\ page_size = default_page_size
    /\ overflow_checks \in BOOLEAN
    /\ header = ZeroHeader
    /\ pc = "new"
    /\ nops = 0
    /\ last = NoCall
    /\ h_in = ZeroHeader
    /\ h_buf = << >>
    /\ h_out = ZeroHeader
    /\ cpc = "idle"

\* pager.init()
PagerInit ==
    /\ pc = "new"
    /\ LET r == init_result(file, page_size)
       IN  /\ file' = r.file
           /\ page_size' = r.page_size
           /\ header' = r.header
           /\ last' = [op |-> "init", page_no |-> Zero32, buf |-> r.buf, n |-> r.n,
                       offset |-> Zero32, before |-> file]
    /\ pc' = "ready"
    /\ UNCHANGED <<default_page_size, overflow_checks, nops>>
    /\ UNCHANGED codecVars

\* the multiplication overflowed in a build with overflow checks: the thread panics
Panic(page_no, buf) ==
    /\ pc' = "panicked"
    /\ last' = [op |-> "panic", page_no |-> page_no, buf |-> buf, n |-> 0,
                offset |-> Zero32, before |-> file]
    /\ UNCHANGED file

\* pager.read(page_no, &mut buf) with a zeroed buffer of len bytes
Read(page_no, len) ==
    /\ pc = "ready"
    /\ nops < MaxOps
    /\ nops' = nops + 1
    /\ IF overflow_checks /\ mul_overflows(page_no, page_size)
       THEN Panic(page_no, Zeros(len))
       ELSE LET r == pager_read(file, page_size, page_no, Zeros(len))
            IN  /\ last' = [op |-> "read", page_no |-> page_no, buf |-> r.buf,
                            n |-> r.n, offset |-> page_offset(page_no, page_size),
                            before |-> file]
                /\ UNCHANGED <<file, pc>>
    /\ UNCHANGED <<page_size, default_page_size, overflow_checks, header>>
    /\ UNCHANGED codecVars

\* pager.write(page_no, &buf)
Write(page_no, buf) ==
    /\ pc = "ready"
    /\ nops < MaxOps
    /\ nops' = nops + 1
    /\ IF overflow_checks /\ mul_overflows(page_no, page_size)
       THEN Panic(page_no, buf)
       ELSE LET off == page_offset(page_no, page_size)
            IN  /\ off.hi = 0
                /\ off.lo + Len(buf) <= MaxFileLen
                /\ file' = pager_write(file, page_size, page_no, buf)
                /\ last' = [op |-> "write", page_no |-> page_no, buf |-> buf,
                            n |-> Len(buf), offset |-> off, before |-> file]
                /\ UNCHANGED pc
    /\ UNCHANGED <<page_size, default_page_size, overflow_checks, header>>
    /\ UNCHANGED codecVars

Next ==
    \/ PagerInit
    \/ \E p \in PageNumbers, len \in BufLens : Read(p, len)
    \/ \E p \in PageNumbers, b \in Buffers : Write(p, b)

Spec == Init /\ [][Next]_vars

----------------------------------------------------------------------------
(* The header codec on its own: encode a header value, then decode the buffer *)

Magics == { MAGIC_NUMBER, Zero32, U32(65535, 65535), U32(1, 2), U32(258, 772) }

PageSizes == { 0, 1, 255, 256, 4660, DEFAULT_PAGE_SIZE, 65535 }

PageCounts == { Zero32, U32(0, 1), U32(1, 0), U32(65535, 65535), U32(258, 772) }

CodecInit ==
    /\ h_in \in { DbHeader(m, ps, n) : m \in Magics, ps \in PageSizes, n \in PageCounts }
    /\ h_buf = << >>
    /\ h_out = ZeroHeader
    /\ cpc = "start"
    /\ file = << >>
    /\ default_page_size = DEFAULT_PAGE_SIZE
    /\ page_size = DEFAULT_PAGE_SIZE
    /\ overflow_checks = FALSE
    /\ header = ZeroHeader
    /\ pc = "new"
    /\ nops = 0
    /\ last = NoCall

\* h.to_buf()
Encode ==
    /\ cpc = "start"
    /\ h_buf' = to_buf(h_in)
    /\ cpc' = "encoded"
    /\ UNCHANGED <<h_in, h_out>>
    /\ UNCHANGED pagerVars

\* DbHeader::from(&buf)
Decode ==
    /\ cpc = "encoded"
    /\ h_out' = from(h_buf)
    /\ cpc' = "decoded"
    /\ UNCHANGED <<h_in, h_buf>>
    /\ UNCHANGED pagerVars

CodecNext == Encode \/ Decode

CodecSpec == CodecInit /\ [][CodecNext]_vars

----------------------------------------------------------------------------
(* Vocabulary of the properties, stated on raw bytes and plain arithmetic  *)

\* byte i (1-based) of f, 0 beyond its end
ByteAt(f, i) == IF i <= Len(f) THEN f[i] ELSE 0

\* f starts with the magic 0x50484442 in little-endian order
HasMagic(f) ==
    ByteAt(f, 1) = 66 /\ ByteAt(f, 2) = 68 /\ ByteAt(f, 3) = 72 /\ ByteAt(f, 4) = 80

\* the u16 at byte offset 4 of f
PersistedPageSize(f) == ByteAt(f, 5) + 256 * ByteAt(f, 6)

\* the u32 at byte offset 6 of f
PersistedPageCount(f) ==
    U32(ByteAt(f, 9) + 256 * ByteAt(f, 10), ByteAt(f, 7) + 256 * ByteAt(f, 8))

Succ32(x) ==
    IF x.lo < 65535 THEN U32(x.hi, x.lo + 1) ELSE U32((x.hi + 1) % 65536, 0)

Pred32(x) ==
    IF x.lo > 0 THEN U32(x.hi, x.lo - 1) ELSE U32((x.hi + 65535) % 65536, 65535)

\* (p * ps) mod 2^32 by halves; p.hi * ps and p.lo * ps stay below 2^31 for
\* every page number and page size of this model
ProductMod32(p, ps) ==
    U32((((p.hi * ps) % 65536) + ((p.lo * ps) \div 65536)) % 65536,
        (p.lo * ps) % 65536)

\* HEADER_SIZE + ps * (p - 1), reduced modulo 2^32, for p >= 1
HeaderRelativeOffset(p, ps) ==
    LET q == ProductMod32(Pred32(p), ps)
        l == q.lo + HEADER_SIZE
    IN  U32((q.hi + (l \div 65536)) % 65536, l % 65536)

Performed == last.op \in {"read", "write"}

Opened == last.op = "init"

\* buf lies in f at byte offset off (0-based)
HoldsAt(f, off, buf) == \A i \in 1..Len(buf) : ByteAt(f, off + i) = buf[i]

\* f and g agree everywhere outside the n bytes at offset off
SameOutside(f, g, off, n) ==
    \A i \in 1..Max(Len(f), Len(g)) :
        (i <= off \/ i > off + n) => ByteAt(f, i) = ByteAt(g, i)

----------------------------------------------------------------------------
(* C1.  Opening a file of at least HEADER_SIZE bytes whose magic differs   *)
(* from MAGIC_NUMBER fails and leaves every byte of the file unchanged.    *)
(* Pager::init returns Ok and writes a fresh header over the first         *)
(* HEADER_SIZE bytes instead.                                              *)
C1_MismatchedMagicRejected ==
    (Opened /\ Len(last.before) >= HEADER_SIZE /\ ~HasMagic(last.before))
        => (pc # "ready" /\ file = last.before)

(* C2.  Opening any file shorter than HEADER_SIZE bootstraps: the file     *)
(* then starts with a fresh header (magic, default page size, zero pages)  *)
(* and the pager's page size is the default.  A short file that starts     *)
(* with the magic is adopted instead, with the missing bytes read as 0.    *)
C2_ShortFileBootstraps ==
    (Opened /\ Len(last.before) < HEADER_SIZE)
        => /\ page_size = default_page_size
           /\ Len(file) >= HEADER_SIZE
           /\ HasMagic(file)
           /\ PersistedPageSize(file) = default_page_size
           /\ PersistedPageCount(file) = Zero32

(* C3.  After init on a file that carries the magic, the pager's page size *)
(* is the page size stored in that file, whatever default was supplied,    *)
(* and it stays so; every later read or write is at the offset obtained    *)
(* from that stored value.                                                 *)
C3_AdoptsPersistedPageSize ==
    /\ (Opened /\ HasMagic(last.before))
          => /\ header.magic = MAGIC_NUMBER
             /\ header.page_size = PersistedPageSize(last.before)
    /\ (last.op # "none" /\ header.magic = MAGIC_NUMBER)
          => /\ page_size = header.page_size
             /\ Performed => last.offset = ProductMod32(last.page_no, header.page_size)

C3_Witness ==
    /\ last.op = "write"
    /\ header.magic = MAGIC_NUMBER
    /\ header.page_size = 4
    /\ default_page_size # 4
    /\ last.page_no = U32(0, 2)
    /\ last.offset = U32(0, 8)

(* C4.  A write of a buffer of exactly page_size bytes to page p, followed *)
(* directly by a read of page_size bytes of page p, returns that buffer.   *)
C4_WriteThenReadReturnsWritten ==
    [][ ( /\ last.op = "write"
          /\ Len(last.buf) = page_size
          /\ last'.op = "read"
          /\ last'.page_no = last.page_no
          /\ Len(last'.buf) = page_size )
        => (last'.n = page_size /\ last'.buf = last.buf) ]_vars

C4_Witness ==
    /\ last.op = "read"
    /\ nops >= 2
    /\ page_size = 4
    /\ last.page_no = U32(0, 2)
    /\ last.n = 4
    /\ last.buf = Pat(160, 4)

(* C5.  Decoding the encoding of a header gives back the header, in every  *)
(* field.                                                                  *)
C5_HeaderRoundTrip == cpc = "decoded" => h_out = h_in

C5_Witness ==
    /\ cpc = "decoded"
    /\ h_in = DbHeader(U32(258, 772), 4660, U32(258, 772))
    /\ h_buf = << 4, 3, 2, 1, 52, 18, 4, 3, 2, 1, 0, 0 >>
    /\ h_out = h_in

C7_InvalidRequestRejected ==
    /\ ( /\ last.op = "read"
         /\ \/ IsZero32(last.page_no)
            \/ last.page_no = Succ32(PersistedPageCount(last.before)) )
          => (last.n = 0 /\ file = last.before)
    /\ (last.op = "write" /\ Len(last.buf) # page_size)
          => (last.n = 0 /\ file = last.before)

C9_NoSilentWrap ==
    Performed => ~mul_overflows(last.page_no, page_size)

(* C10.  A write of at most page_size bytes to a page p >= 1 whose offset  *)
(* does not overflow leaves the HEADER_SIZE header bytes and every byte    *)
(* outside page p as they were.                                            *)
C10_WriteLeavesHeaderAndOtherPages ==
    ( /\ last.op = "write"
      /\ ~IsZero32(last.page_no)
      /\ Len(last.buf) <= page_size
      /\ ~mul_overflows(last.page_no, page_size) )
        => /\ \A i \in 1..Min(HEADER_SIZE, Len(last.before)) :
                  file[i] = last.before[i]
           /\ SameOutside(file, last.before, last.offset.lo, page_size)

====
